---- MODULE Spec2Model ----
(***************************************************************************)
(* Model of FacePlate.py: the macro that builds the heating control        *)
(* faceplate (blank, screw holes, BILRESA pockets, LED holes, Shelly       *)
(* cradles) and registers it with its reference solids in a document.      *)
(*                                                                         *)
(* Lengths are exact fixed-point numbers in micrometres (1 mm = 1000), so  *)
(* every parameter of the script and every half of one is an integer.      *)
(* A solid is the set of its regions, each a primitive with the set of     *)
(* tools cut out of it: cut adds the tool to every region, fuse is union.  *)
(***************************************************************************)
EXTENDS Integers, Sequences, FiniteSets, TLC

(* ------------------------------------------------------------------ *)
(* Parameters (FacePlate.py lines 26-74), in micrometres               *)
(* ------------------------------------------------------------------ *)
FACEPLATE_WIDTH == 146000
FACEPLATE_HEIGHT == 86000
FACEPLATE_THICKNESS == 4000

SCREW_SPACING == 120000
SCREW_DIAMETER == 4000
SCREW_COUNTERSINK_DIAMETER == 8000
SCREW_COUNTERSINK_DEPTH == 2000

BILRESA_LENGTH == 47000
BILRESA_WIDTH == 16600
BILRESA_THICKNESS == 500
BILRESA_CORNER_RADIUS == 8300

NUM_BILRESA == 3
BILRESA_SPACING == 40000

LED_HOLE_DIAMETER == 10750
LED_HEAD_DIAMETER == 11600
LED_COUNTERSINK_DEPTH == 1000

BILRESA_FRONT_WALL == 1000
BILRESA_POCKET_DEPTH == 700
BILRESA_CLEARANCE == 200

SHELLY_WIDTH == 35000
SHELLY_HEIGHT == 29000
SHELLY_DEPTH == 16000

SHELLY_WALL_THICKNESS == 2000
SHELLY_LIP_HEIGHT == 2000
SHELLY_LIP_DEPTH == 1500
SHELLY_CLEARANCE == -750
SHELLY_SHELF_THICKNESS == 2000

(* Literals of create_faceplate *)
bilresa_y_pos == -12000
led_y_pos == 30000
HOLE_OVERSHOOT == 500
HOLE_EXTRA_LENGTH == 1000
RECESS_EXTRA_DEPTH == 100
FILLET_REDUCTION == 100
SHELLY_RAISE == 6000
PLATE_TRANSPARENCY == 50
SHELLY_TRANSPARENCY == 70
INNER_BOX_HEIGHT == 69500

(* ------------------------------------------------------------------ *)
(* Bounds of the parameter space explored                              *)
(* ------------------------------------------------------------------ *)
MaxPockets == 3

(* The parameter values a run may be configured with: the defaults and  *)
(* neighbours of them (the script's parameters are edited by hand).     *)
PocketCounts == 1..MaxPockets
Pitches == {30000, BILRESA_SPACING, 42500}
Clearances == {SHELLY_CLEARANCE, 0, 500}
PocketDepths == {BILRESA_POCKET_DEPTH, 1200}

Configs ==
  [num : PocketCounts, spacing : Pitches,
   clearance : Clearances, pocket_depth : PocketDepths]

DefaultConfig ==
  [num |-> NUM_BILRESA, spacing |-> BILRESA_SPACING,
   clearance |-> SHELLY_CLEARANCE, pocket_depth |-> BILRESA_POCKET_DEPTH]

(* ------------------------------------------------------------------ *)
(* Arithmetic and geometry kernel calls                                 *)
(* ------------------------------------------------------------------ *)
Half(v) == v \div 2

Max(a, b) == IF a >= b THEN a ELSE b

Min(a, b) == IF a <= b THEN a ELSE b

Vector(vx, vy, vz) == [x |-> vx, y |-> vy, z |-> vz]

(* Part.makeBox(length, width, height, pnt): name is the script variable  *)
(* the shape is bound to.                                                 *)
makeBox(name, length, width, height, pnt) ==
  [name |-> name, kind |-> "box",
   x0 |-> pnt.x, x1 |-> pnt.x + length,
   y0 |-> pnt.y, y1 |-> pnt.y + width,
   z0 |-> pnt.z, z1 |-> pnt.z + height,
   r0 |-> 0, r1 |-> 0]

(* Part.makeCone(radius1, radius2, height, pnt, Vector(0,0,1)): radius1   *)
(* at the base point, radius2 at the top.                                 *)
makeCone(name, radius1, radius2, height, pnt) ==
  [name |-> name, kind |-> "cone",
   x0 |-> pnt.x - Max(radius1, radius2), x1 |-> pnt.x + Max(radius1, radius2),
   y0 |-> pnt.y - Max(radius1, radius2), y1 |-> pnt.y + Max(radius1, radius2),
   z0 |-> pnt.z, z1 |-> pnt.z + height,
   r0 |-> radius1, r1 |-> radius2]

(* Part.makeCylinder(radius, height, pnt, Vector(0,0,1)) *)
makeCylinder(name, radius, height, pnt) ==
  [makeCone(name, radius, radius, height, pnt) EXCEPT !.kind = "cylinder"]

(* shape.makeFillet(radius, edges) on the vertical edges of a box: the    *)
(* same extents with the four corners rounded.                            *)
makeFillet(box, radius) ==
  [box EXCEPT !.kind = "filleted_box", !.r0 = radius, !.r1 = radius]

(* box.Edges: the 12 edges of a box as pairs of corner vertices.          *)
Vertexes(box) ==
  { Vector(vx, vy, vz) : vx \in {box.x0, box.x1}, vy \in {box.y0, box.y1},
                         vz \in {box.z0, box.z1} }

DiffCount(a, b) ==
  (IF a.x # b.x THEN 1 ELSE 0) + (IF a.y # b.y THEN 1 ELSE 0)
    + (IF a.z # b.z THEN 1 ELSE 0)

Edges(box) ==
  { e \in SUBSET Vertexes(box) :
      /\ Cardinality(e) = 2
      /\ \A a, b \in e : a # b => DiffCount(a, b) = 1 }

(* The edges the script selects: both vertices share X and Y.             *)
EdgesToFillet(box) ==
  { e \in Edges(box) : \A a, b \in e : a.x = b.x /\ a.y = b.y }

(* Solids *)
NullShape == {}

isNull(solid) == solid = {}

Solid(prim) == { [prim |-> prim, holes |-> {}] }

cut(solid, tool) ==
  { [prim |-> r.prim, holes |-> r.holes \cup {tool}] : r \in solid }

fuse(solid, other) == solid \cup other

(* The value a failed kernel call leaves in place of a shape when its     *)
(* exception is not handled where it was raised.                          *)
EXC == [kind |-> "exception"]


(* ------------------------------------------------------------------ *)
(* State                                                               *)
(* ------------------------------------------------------------------ *)
VARIABLES
  cfg,                \* the parameter block the run was configured with
  pc,                 \* position of the script
  i,                  \* iterations completed of the loop at pc
  faceplate,          \* local faceplate: the solid under construction
  bilresa_positions,  \* local list of pocket centres
  shelly_housings,    \* local collection of cradles
  doc,                \* the document: object name -> object
  out,                \* lines printed on the console
  raised,             \* exception that left the statement raising it
  fillet_failed,      \* fillet attempts that raised: <<"pocket" | "plate", k>>
  view_fitted         \* whether the view-fitting calls ran

vars ==
  <<cfg, pc, i, faceplate, bilresa_positions, shelly_housings, doc, out,
    raised, fillet_failed, view_fitted>>

(* ------------------------------------------------------------------ *)
(* Derived dimensions                                                  *)
(* ------------------------------------------------------------------ *)
screw_positions ==
  << Vector(-Half(SCREW_SPACING), 0, 0), Vector(Half(SCREW_SPACING), 0, 0) >>

total_span == cfg.spacing * (cfg.num - 1)

(* Variant: the span is not halved, so the row starts one span left. *)
start_x_unhalved == -total_span

start_x == -Half(total_span)

PositionAt(k) == Vector(start_x + (k * cfg.spacing), bilresa_y_pos, 0)

pocket_width == BILRESA_WIDTH + BILRESA_CLEARANCE

pocket_length == BILRESA_LENGTH + BILRESA_CLEARANCE

pocket_corner_radius == BILRESA_CORNER_RADIUS + Half(BILRESA_CLEARANCE)

(* Variant: the cut takes its depth from BILRESA_POCKET_DEPTH. *)
pocket_z_depth_from_pocket_depth == cfg.pocket_depth

pocket_z_depth == FACEPLATE_THICKNESS - BILRESA_FRONT_WALL

cradle_internal_width == SHELLY_WIDTH + cfg.clearance

cradle_internal_height == SHELLY_HEIGHT + cfg.clearance

cradle_external_width == cradle_internal_width + (2 * SHELLY_WALL_THICKNESS)

cradle_external_height == cradle_internal_height + SHELLY_SHELF_THICKNESS

cradle_depth == SHELLY_DEPTH + SHELLY_SHELF_THICKNESS

shelly_y_pos ==
  -Half(FACEPLATE_HEIGHT) + Half(cradle_external_height) + SHELLY_RAISE

z_back == -cradle_depth

(* ------------------------------------------------------------------ *)
(* Shapes                                                              *)
(* ------------------------------------------------------------------ *)
base_box ==
  makeBox("base_box", FACEPLATE_WIDTH, FACEPLATE_HEIGHT, FACEPLATE_THICKNESS,
          Vector(-Half(FACEPLATE_WIDTH), -Half(FACEPLATE_HEIGHT), 0))

ScrewHole(pos) ==
  makeCylinder("screw_hole", Half(SCREW_DIAMETER),
               FACEPLATE_THICKNESS + HOLE_EXTRA_LENGTH,
               Vector(pos.x, pos.y, pos.z - HOLE_OVERSHOOT))

(* Variant: the cone radii are swapped, wide end inside. *)
CountersinkFlipped(pos) ==
  makeCone("countersink", Half(SCREW_COUNTERSINK_DIAMETER), Half(SCREW_DIAMETER),
           SCREW_COUNTERSINK_DEPTH,
           Vector(pos.x, pos.y, pos.z + FACEPLATE_THICKNESS - SCREW_COUNTERSINK_DEPTH))

Countersink(pos) ==
  makeCone("countersink", Half(SCREW_DIAMETER), Half(SCREW_COUNTERSINK_DIAMETER),
           SCREW_COUNTERSINK_DEPTH,
           Vector(pos.x, pos.y, pos.z + FACEPLATE_THICKNESS - SCREW_COUNTERSINK_DEPTH))

PocketBox(pos) ==
  makeBox("pocket", pocket_width, pocket_length, pocket_z_depth,
          Vector(pos.x - Half(pocket_width), pos.y - Half(pocket_length), 0))

(* try: makeFillet(radius, edges) except: box -- `fails` says whether the  *)
(* kernel raises on this attempt.                                          *)
(* Variant without the try: a failing fillet raises out of the step. *)
TryFilletUnguarded(box, radius, fails) ==
  IF EdgesToFillet(box) # {}
  THEN IF fails THEN EXC ELSE makeFillet(box, radius)
  ELSE box

TryFillet(box, radius, fails) ==
  IF EdgesToFillet(box) # {}
  THEN IF fails THEN box ELSE makeFillet(box, radius)
  ELSE box

Pocket(pos, fails) ==
  TryFillet(PocketBox(pos), pocket_corner_radius - FILLET_REDUCTION, fails)

(* Variant: the LED is placed relative to its pocket centre. *)
LedPosRelative(pos) == Vector(pos.x, pos.y + Half(led_y_pos), 0)

LedPos(pos) == Vector(pos.x, led_y_pos, 0)

LedHole(pos) ==
  makeCylinder("led_hole", Half(LED_HOLE_DIAMETER),
               FACEPLATE_THICKNESS + HOLE_EXTRA_LENGTH,
               Vector(LedPos(pos).x, LedPos(pos).y, LedPos(pos).z - HOLE_OVERSHOOT))

LedRecess(pos) ==
  makeCylinder("led_recess", Half(LED_HEAD_DIAMETER),
               LED_COUNTERSINK_DEPTH + RECESS_EXTRA_DEPTH,
               Vector(LedPos(pos).x, LedPos(pos).y,
                      LedPos(pos).z + FACEPLATE_THICKNESS - LED_COUNTERSINK_DEPTH))

Shelf(shelly_x) ==
  makeBox("shelf", cradle_external_width, SHELLY_SHELF_THICKNESS, cradle_depth,
          Vector(shelly_x - Half(cradle_external_width),
                 shelly_y_pos - Half(cradle_external_height),
                 z_back))

ShelfLip(shelly_x) ==
  makeBox("shelf_lip", cradle_internal_width, SHELLY_LIP_DEPTH, SHELLY_LIP_HEIGHT,
          Vector(shelly_x - Half(cradle_internal_width),
                 shelly_y_pos - Half(cradle_external_height) + SHELLY_SHELF_THICKNESS,
                 z_back))

LeftGuide(shelly_x) ==
  makeBox("left_guide", SHELLY_WALL_THICKNESS, cradle_internal_height, cradle_depth,
          Vector(shelly_x - Half(cradle_external_width),
                 shelly_y_pos - Half(cradle_external_height) + SHELLY_SHELF_THICKNESS,
                 z_back))

LeftLip(shelly_x) ==
  makeBox("left_lip", SHELLY_LIP_DEPTH, cradle_internal_height, SHELLY_LIP_HEIGHT,
          Vector(shelly_x - Half(cradle_external_width) + SHELLY_WALL_THICKNESS,
                 shelly_y_pos - Half(cradle_external_height) + SHELLY_SHELF_THICKNESS,
                 z_back))

(* Variant: the guide is not pulled in by the wall thickness. *)
RightGuideOutside(shelly_x) ==
  makeBox("right_guide", SHELLY_WALL_THICKNESS, cradle_internal_height, cradle_depth,
          Vector(shelly_x + Half(cradle_external_width),
                 shelly_y_pos - Half(cradle_external_height) + SHELLY_SHELF_THICKNESS,
                 z_back))

RightGuide(shelly_x) ==
  makeBox("right_guide", SHELLY_WALL_THICKNESS, cradle_internal_height, cradle_depth,
          Vector(shelly_x + Half(cradle_external_width) - SHELLY_WALL_THICKNESS,
                 shelly_y_pos - Half(cradle_external_height) + SHELLY_SHELF_THICKNESS,
                 z_back))

RightLip(shelly_x) ==
  makeBox("right_lip", SHELLY_LIP_DEPTH, cradle_internal_height, SHELLY_LIP_HEIGHT,
          Vector(shelly_x + Half(cradle_external_width) - SHELLY_WALL_THICKNESS
                   - SHELLY_LIP_DEPTH,
                 shelly_y_pos - Half(cradle_external_height) + SHELLY_SHELF_THICKNESS,
                 z_back))

(* shelf.fuse(shelf_lip).fuse(left_guide).fuse(left_lip).fuse(right_guide) *)
(*      .fuse(right_lip)                                                   *)
Cradle(shelly_x) ==
  fuse(fuse(fuse(fuse(fuse(Solid(Shelf(shelly_x)), Solid(ShelfLip(shelly_x))),
                      Solid(LeftGuide(shelly_x))),
                 Solid(LeftLip(shelly_x))),
            Solid(RightGuide(shelly_x))),
       Solid(RightLip(shelly_x)))

plate_z == pocket_z_depth - BILRESA_THICKNESS

PlateBox(pos) ==
  makeBox("plate", BILRESA_WIDTH, BILRESA_LENGTH, BILRESA_THICKNESS,
          Vector(pos.x - Half(BILRESA_WIDTH), pos.y - Half(BILRESA_LENGTH), plate_z))

Plate(pos, fails) ==
  TryFillet(PlateBox(pos), BILRESA_CORNER_RADIUS - FILLET_REDUCTION, fails)

ShellyBox(shelly_x) ==
  makeBox("shelly_box", SHELLY_WIDTH, SHELLY_HEIGHT, SHELLY_DEPTH,
          Vector(shelly_x - Half(SHELLY_WIDTH),
                 shelly_y_pos - Half(cradle_external_height) + SHELLY_SHELF_THICKNESS
                   + Half(cfg.clearance),
                 -cradle_depth + SHELLY_SHELF_THICKNESS))

(* ------------------------------------------------------------------ *)
(* Document                                                            *)
(* ------------------------------------------------------------------ *)
FaceplateName == "HeatingFaceplate"

PlateName(k) == "BILRESA_Plate_" \o ToString(k)

ShellyName(k) == "Shelly_" \o ToString(k)

Feature(shape, transparency) ==
  [Shape |-> shape, Transparency |-> transparency]

(* Variant: a reference solid is unioned into the manufactured object. *)
addObjectFused(d, name, shape, transparency) ==
  IF FaceplateName \in DOMAIN d
  THEN (name :> Feature(shape, transparency))
         @@ [d EXCEPT ![FaceplateName].Shape = fuse(@, shape)]
  ELSE (name :> Feature(shape, transparency)) @@ d

(* obj = doc.addObject("Part::Feature", name); obj.Shape = shape;          *)
(* obj.ViewObject.Transparency = transparency                              *)
addObject(d, name, shape, transparency) ==
  (name :> Feature(shape, transparency)) @@ d


(* ------------------------------------------------------------------ *)
(* Control flow                                                        *)
(* ------------------------------------------------------------------ *)
(* Statements of create_faceplate, and of the try block that calls it.  *)
FunctionSteps ==
  {"newdoc", "base", "screws", "positions", "pockets", "leds", "cradles",
   "fuse", "register", "plates", "shellys", "recompute", "view", "summary"}

GuardedSteps == {"guard_import"} \cup FunctionSteps

(* Variant: no handler around the call. *)
HandlerAbsent(at) == "crashed"

(* Where an exception that leaves the statement at `at` lands: the bare  *)
(* except of the __main__ guard covers the FreeCADGui import and the     *)
(* call; the module-level imports are outside any try.                   *)
Handler(at) == IF at \in GuardedSteps THEN "except" ELSE "crashed"

Unwind(kind) ==
  /\ pc' = Handler(pc)
  /\ raised' = kind
  /\ UNCHANGED <<cfg, i, faceplate, bilresa_positions, shelly_housings, doc,
                 out, view_fitted>>

(* After an iteration of a loop of n iterations: stay, or go on to next. *)
LoopStep(n, next) ==
  IF i + 1 < n
  THEN pc' = pc /\ i' = i + 1
  ELSE pc' = next /\ i' = 0

Init ==
  /\ cfg \in Configs
  /\ pc = "top_imports"
  /\ i = 0
  /\ faceplate = NullShape
  /\ bilresa_positions = << >>
  /\ shelly_housings = NullShape
  /\ doc = << >>
  /\ out = << >>
  /\ raised = "none"
  /\ fillet_failed = {}
  /\ view_fitted = FALSE

(* import FreeCAD, Part, Vector, math *)
TopImports ==
  /\ pc = "top_imports"
  /\ pc' = "guard_import"
  /\ UNCHANGED <<cfg, i, faceplate, bilresa_positions, shelly_housings, doc,
                 out, raised, fillet_failed, view_fitted>>

(* The host modules are absent: ImportError at module level. *)
TopImportsFail ==
  /\ pc = "top_imports"
  /\ Unwind("import")
  /\ UNCHANGED fillet_failed

(* try: import FreeCADGui *)
ImportGui ==
  /\ pc = "guard_import"
  /\ pc' = "newdoc"
  /\ UNCHANGED <<cfg, i, faceplate, bilresa_positions, shelly_housings, doc,
                 out, raised, fillet_failed, view_fitted>>

(* Any statement inside the try block raising something other than a     *)
(* fillet failure or a view-fitting failure.                             *)
Raise ==
  /\ pc \in GuardedSteps
  /\ Unwind("other")
  /\ UNCHANGED fillet_failed

NewDocument ==
  /\ pc = "newdoc"
  /\ doc' = << >>
  /\ pc' = "base"
  /\ UNCHANGED <<cfg, i, faceplate, bilresa_positions, shelly_housings, out,
                 raised, fillet_failed, view_fitted>>

MakeBase ==
  /\ pc = "base"
  /\ faceplate' = Solid(base_box)
  /\ pc' = "screws"
  /\ i' = 0
  /\ UNCHANGED <<cfg, bilresa_positions, shelly_housings, doc, out, raised,
                 fillet_failed, view_fitted>>

CutScrew ==
  /\ pc = "screws"
  /\ LET pos == screw_positions[i + 1]
     IN faceplate' = cut(cut(faceplate, ScrewHole(pos)), Countersink(pos))
  /\ LoopStep(Len(screw_positions), "positions")
  /\ UNCHANGED <<cfg, bilresa_positions, shelly_housings, doc, out, raised,
                 fillet_failed, view_fitted>>

AppendPosition ==
  /\ pc = "positions"
  /\ bilresa_positions' = Append(bilresa_positions, PositionAt(i))
  /\ LoopStep(cfg.num, "pockets")
  /\ UNCHANGED <<cfg, faceplate, shelly_housings, doc, out, raised,
                 fillet_failed, view_fitted>>

CutPocket ==
  /\ pc = "pockets"
  /\ \E fails \in BOOLEAN :
       LET pocket == Pocket(bilresa_positions[i + 1], fails)
       IN /\ fillet_failed' =
               IF fails THEN fillet_failed \cup {<<"pocket", i + 1>>}
               ELSE fillet_failed
          /\ IF pocket = EXC
             THEN Unwind("fillet")
             ELSE /\ faceplate' = cut(faceplate, pocket)
                  /\ LoopStep(Len(bilresa_positions), "leds")
                  /\ UNCHANGED <<cfg, bilresa_positions, shelly_housings, doc,
                                 out, raised, view_fitted>>

CutLed ==
  /\ pc = "leds"
  /\ LET pos == bilresa_positions[i + 1]
     IN faceplate' = cut(cut(faceplate, LedHole(pos)), LedRecess(pos))
  /\ LoopStep(Len(bilresa_positions), "cradles")
  /\ UNCHANGED <<cfg, bilresa_positions, shelly_housings, doc, out, raised,
                 fillet_failed, view_fitted>>

BuildCradle ==
  /\ pc = "cradles"
  /\ LET cradle == Cradle(bilresa_positions[i + 1].x)
     IN shelly_housings' =
          IF isNull(shelly_housings) THEN cradle
          ELSE fuse(shelly_housings, cradle)
  /\ LoopStep(Len(bilresa_positions), "fuse")
  /\ UNCHANGED <<cfg, faceplate, bilresa_positions, doc, out, raised,
                 fillet_failed, view_fitted>>

FuseHousings ==
  /\ pc = "fuse"
  /\ faceplate' = fuse(faceplate, shelly_housings)
  /\ pc' = "register"
  /\ UNCHANGED <<cfg, i, bilresa_positions, shelly_housings, doc, out, raised,
                 fillet_failed, view_fitted>>

RegisterFaceplate ==
  /\ pc = "register"
  /\ doc' = addObject(doc, FaceplateName, faceplate, 0)
  /\ pc' = "plates"
  /\ i' = 0
  /\ UNCHANGED <<cfg, faceplate, bilresa_positions, shelly_housings, out,
                 raised, fillet_failed, view_fitted>>

AddPlate ==
  /\ pc = "plates"
  /\ \E fails \in BOOLEAN :
       LET plate == Plate(bilresa_positions[i + 1], fails)
       IN /\ fillet_failed' =
               IF fails THEN fillet_failed \cup {<<"plate", i + 1>>}
               ELSE fillet_failed
          /\ IF plate = EXC
             THEN Unwind("fillet")
             ELSE /\ doc' = addObject(doc, PlateName(i + 1), Solid(plate),
                                      PLATE_TRANSPARENCY)
                  /\ LoopStep(Len(bilresa_positions), "shellys")
                  /\ UNCHANGED <<cfg, faceplate, bilresa_positions,
                                 shelly_housings, out, raised, view_fitted>>

AddShelly ==
  /\ pc = "shellys"
  /\ doc' = addObject(doc, ShellyName(i + 1),
                      Solid(ShellyBox(bilresa_positions[i + 1].x)),
                      SHELLY_TRANSPARENCY)
  /\ LoopStep(Len(bilresa_positions), "recompute")
  /\ UNCHANGED <<cfg, faceplate, bilresa_positions, shelly_housings, out,
                 raised, fillet_failed, view_fitted>>

(* doc.recompute(): Part::Feature objects keep the shape assigned.       *)
Recompute ==
  /\ pc = "recompute"
  /\ pc' = "view"
  /\ UNCHANGED <<cfg, i, faceplate, bilresa_positions, shelly_housings, doc,
                 out, raised, fillet_failed, view_fitted>>

(* try: viewIsometric(); fitAll()  except: pass *)
SetView ==
  /\ pc = "view"
  /\ \E available \in BOOLEAN : view_fitted' = available
  /\ pc' = "summary"
  /\ UNCHANGED <<cfg, i, faceplate, bilresa_positions, shelly_housings, doc,
                 out, raised, fillet_failed>>

(* The summary prints, then return doc. *)
PrintSummary ==
  /\ pc = "summary"
  /\ out' = Append(out, "Heating Control Faceplate V6 created!")
  /\ pc' = "returned"
  /\ UNCHANGED <<cfg, i, faceplate, bilresa_positions, shelly_housings, doc,
                 raised, fillet_failed, view_fitted>>

(* The call in the guard returned: the script ends. *)
GuardDone ==
  /\ pc = "returned"
  /\ pc' = "exit"
  /\ UNCHANGED <<cfg, i, faceplate, bilresa_positions, shelly_housings, doc,
                 out, raised, fillet_failed, view_fitted>>

(* except: print("Run this script from within FreeCAD") ... *)
GuardExcept ==
  /\ pc = "except"
  /\ out' = Append(out, "Run this script from within FreeCAD")
  /\ pc' = "exit"
  /\ UNCHANGED <<cfg, i, faceplate, bilresa_positions, shelly_housings, doc,
                 raised, fillet_failed, view_fitted>>

Next ==
  \/ TopImports
  \/ TopImportsFail
  \/ ImportGui
  \/ Raise
  \/ NewDocument
  \/ MakeBase
  \/ CutScrew
  \/ AppendPosition
  \/ CutPocket
  \/ CutLed
  \/ BuildCradle
  \/ FuseHousings
  \/ RegisterFaceplate
  \/ AddPlate
  \/ AddShelly
  \/ Recompute
  \/ SetView
  \/ PrintSummary
  \/ GuardDone
  \/ GuardExcept

Spec == Init /\ [][Next]_vars


(* ------------------------------------------------------------------ *)
(* Reading a solid                                                     *)
(* ------------------------------------------------------------------ *)
Holes(solid) == UNION { r.holes : r \in solid }

Named(prims, name) == { p \in prims : p.name = name }

Prims(solid) == { r.prim : r \in solid }

CentreX(p) == Half(p.x0 + p.x1)

CentreY(p) == Half(p.y0 + p.y1)

Centre(p) == <<CentreX(p), CentreY(p)>>

MinOf(S) == CHOOSE v \in S : \A w \in S : v <= w

MaxOf(S) == CHOOSE v \in S : \A w \in S : v >= w

(* Bounding rectangle, in XY, of a non-empty set of primitives. *)
Bounds(prims) ==
  [x0 |-> MinOf({ p.x0 : p \in prims }), x1 |-> MaxOf({ p.x1 : p \in prims }),
   y0 |-> MinOf({ p.y0 : p \in prims }), y1 |-> MaxOf({ p.y1 : p \in prims })]

NonEmptyRect(a) == a.x0 < a.x1 /\ a.y0 < a.y1

(* Two rectangles share a region of positive area. *)
RectMeet(a, b) ==
  /\ NonEmptyRect(a) /\ NonEmptyRect(b)
  /\ a.x0 < b.x1 /\ b.x0 < a.x1
  /\ a.y0 < b.y1 /\ b.y0 < a.y1

RectInside(a, b) ==
  a.x0 >= b.x0 /\ a.x1 <= b.x1 /\ a.y0 >= b.y0 /\ a.y1 <= b.y1

Clip(a, b) ==
  [x0 |-> Max(a.x0, b.x0), x1 |-> Min(a.x1, b.x1),
   y0 |-> Max(a.y0, b.y0), y1 |-> Min(a.y1, b.y1)]

(* A disc of radius r about (cx, cy) reaches into rectangle a. *)
DiscMeet(cx, cy, r, a) ==
  /\ NonEmptyRect(a)
  /\ LET dx == Max(Max(a.x0 - cx, cx - a.x1), 0)
         dy == Max(Max(a.y0 - cy, cy - a.y1), 0)
     IN (dx * dx) + (dy * dy) < r * r

(* The XY footprint of pocket p (a box, or a box with its four vertical   *)
(* edges rounded at radius p.r0) shares positive area with rectangle b.   *)
FootprintMeets(p, b) ==
  IF p.kind = "box" THEN RectMeet(p, b)
  ELSE LET r == p.r0
           xs == {p.x0 + r, p.x1 - r}
           ys == {p.y0 + r, p.y1 - r}
           quadrant(cx, cy) ==
             [x0 |-> IF cx = p.x0 + r THEN p.x0 ELSE cx,
              x1 |-> IF cx = p.x0 + r THEN cx ELSE p.x1,
              y0 |-> IF cy = p.y0 + r THEN p.y0 ELSE cy,
              y1 |-> IF cy = p.y0 + r THEN cy ELSE p.y1]
       IN \/ RectMeet([x0 |-> p.x0 + r, x1 |-> p.x1 - r,
                       y0 |-> p.y0, y1 |-> p.y1], b)
          \/ RectMeet([x0 |-> p.x0, x1 |-> p.x1,
                       y0 |-> p.y0 + r, y1 |-> p.y1 - r], b)
          \/ \E cx \in xs, cy \in ys :
               DiscMeet(cx, cy, r, Clip(b, quadrant(cx, cy)))

(* Stages of the run, read off the state. *)
ScrewsDone == pc = "positions" \/ bilresa_positions # << >>

PositionsDone == Len(bilresa_positions) = cfg.num /\ pc # "positions"

PocketsDone ==
  PositionsDone /\ (pc = "leds" \/ Named(Holes(faceplate), "led_hole") # {})

Registered == FaceplateName \in DOMAIN doc

Finished == raised = "none" /\ pc \in {"returned", "exit"}

Manufactured == doc[FaceplateName].Shape

ReferenceNames ==
  { PlateName(k) : k \in 1..cfg.num } \cup { ShellyName(k) : k \in 1..cfg.num }


(* ------------------------------------------------------------------ *)
(* Properties                                                          *)
(* ------------------------------------------------------------------ *)

(* C1: once the manufactured solid is registered as "HeatingFaceplate",  *)
(* no later step changes it: every reference solid is an object of its   *)
(* own, and none is a region of, or a tool cut from, the manufactured    *)
(* solid, which is the same before and after each step.                  *)
C1_ManufacturedSolidFrozen ==
  [][ Registered =>
        /\ FaceplateName \in DOMAIN doc'
        /\ doc'[FaceplateName] = doc[FaceplateName]
        /\ DOMAIN doc' \ {FaceplateName} \subseteq ReferenceNames
        /\ \A n \in DOMAIN doc' \ {FaceplateName} :
             \A ref \in Prims(doc'[n].Shape) :
               /\ ref \notin Prims(doc'[FaceplateName].Shape)
               /\ ref \notin Holes(doc'[FaceplateName].Shape) ]_vars

C1_Witness ==
  /\ Finished
  /\ cfg = DefaultConfig
  /\ DOMAIN doc = {FaceplateName} \cup ReferenceNames
  /\ Manufactured = faceplate

(* C2: whichever fillet attempts raise, no fillet exception leaves its   *)
(* try block; a pocket or plate whose fillet raised is its plain box;    *)
(* all N pockets are cut from the faceplate; and a run that nothing else *)
(* interrupts ends with the manufactured solid and all 2N reference      *)
(* solids in the document.                                               *)
C2_FilletFailuresTolerated ==
  /\ raised # "fillet"
  /\ PocketsDone =>
       \A k \in 1..cfg.num :
         LET box == PocketBox(bilresa_positions[k])
             want == IF <<"pocket", k>> \in fillet_failed THEN box
                     ELSE makeFillet(box, pocket_corner_radius - FILLET_REDUCTION)
         IN \E r \in faceplate : r.prim = base_box /\ want \in r.holes
  /\ PocketsDone => Cardinality(Named(Holes(faceplate), "pocket")) = cfg.num
  /\ Finished =>
       /\ DOMAIN doc = {FaceplateName} \cup ReferenceNames
       /\ Cardinality(DOMAIN doc) = 1 + (2 * cfg.num)
       /\ \A k \in 1..cfg.num :
            LET box == PlateBox(bilresa_positions[k])
            IN doc[PlateName(k)].Shape =
                 Solid(IF <<"plate", k>> \in fillet_failed THEN box
                       ELSE makeFillet(box, BILRESA_CORNER_RADIUS - FILLET_REDUCTION))

C2_Witness ==
  /\ pc = "exit"
  /\ raised = "none"
  /\ cfg = DefaultConfig
  /\ fillet_failed = {<<"pocket", 1>>, <<"pocket", 3>>, <<"plate", 2>>}
  /\ DOMAIN doc = {FaceplateName} \cup ReferenceNames

(* C3 as stated: a failure other than a fillet or view-fitting failure   *)
(* is never caught: the run ends in an uncaught exception, never in a    *)
(* normal completion.                                                    *)
C3_OtherFailuresUncaught ==
  raised \in {"other", "import"} => pc = "crashed"

(* C3 amended: such a failure is handled nowhere inside                  *)
(* create_faceplate (no summary is printed, nothing after the failing    *)
(* statement runs), but the bare except of the __main__ guard catches    *)
(* it, prints the hint and the script completes normally; only a failure *)
(* of the module-level imports terminates the run uncaught.              *)
C3_GuardCatchesOtherFailures ==
  /\ raised = "other" =>
       \/ pc = "except" /\ out = << >>
       \/ pc = "exit" /\ out = << "Run this script from within FreeCAD" >>
  /\ pc = "crashed" <=> raised = "import"
  /\ raised = "import" => (out = << >> /\ doc = << >>)

C3_Witness ==
  /\ raised = "other"
  /\ pc = "exit"
  /\ Registered
  /\ DOMAIN doc # {FaceplateName} \cup ReferenceNames


(* The cut features of a solid: its tools grouped by axis (a through     *)
(* hole and its coaxial countersink or recess are one feature), each     *)
(* given by the XY rectangle bounding its tools.                         *)
CutFeatures(solid) ==
  { Bounds({ h \in Holes(solid) : Centre(h) = c }) :
      c \in { Centre(t) : t \in Holes(solid) } }

CradleParts(solid) == { r \in solid : r.prim # base_box }

(* C4: with default parameters the manufactured solid has 2 screw        *)
(* through-holes, 3 pockets, 3 LED holes and 3 cradles; the 8 cut        *)
(* features are pairwise disjoint in XY and lie inside the blank's       *)
(* footprint; only the blank (0 <= z <= thickness) is cut; cradle        *)
(* material lies at z <= 0 inside the blank's footprint; and the regions *)
(* that remain above z = 0, their cuts filled, are exactly the blank.    *)
C4_DefaultFeatures ==
  (cfg = DefaultConfig /\ Registered) =>
    LET M == Manufactured
        tools == Holes(M)
        feats == CutFeatures(M)
        shelves == Named(Prims(M), "shelf")
    IN /\ Cardinality(Named(tools, "screw_hole")) = 2
       /\ Cardinality(Named(tools, "countersink")) = 2
       /\ Cardinality(Named(tools, "pocket")) = 3
       /\ Cardinality(Named(tools, "led_hole")) = 3
       /\ Cardinality(Named(tools, "led_recess")) = 3
       /\ Cardinality(feats) = 8
       /\ \A f, g \in feats : f # g => ~RectMeet(f, g)
       /\ \A f \in feats : RectInside(f, base_box)
       /\ \A r \in M :
            r.holes # {} =>
              /\ r.prim = base_box
              /\ r.prim.z0 = 0
              /\ r.prim.z1 = FACEPLATE_THICKNESS
       /\ Cardinality(CradleParts(M)) = 3 * 6
       /\ Cardinality(shelves) = 3
       /\ \A a, b \in shelves : a # b => ~RectMeet(a, b)
       /\ \A r \in CradleParts(M) :
            /\ r.holes = {}
            /\ r.prim.z1 <= 0
            /\ RectInside(r.prim, base_box)
            /\ \E a \in shelves : r.prim.x0 >= a.x0 /\ r.prim.x1 <= a.x1
       /\ { r.prim : r \in { q \in M : q.prim.z1 > 0 } } = {base_box}
       /\ base_box.x1 - base_box.x0 = FACEPLATE_WIDTH
       /\ base_box.y1 - base_box.y0 = FACEPLATE_HEIGHT

C4_Witness ==
  /\ cfg = DefaultConfig
  /\ Finished
  /\ Registered
  /\ Cardinality(Manufactured) = 19

(* C5: for every pocket count and pitch, consecutive pocket centres are  *)
(* exactly one pitch apart along X, the first and last centres mirror    *)
(* each other about the centreline, and all centres share one Y.         *)
C5_PocketSpacing ==
  /\ \A k \in 1..(Len(bilresa_positions) - 1) :
       bilresa_positions[k + 1].x - bilresa_positions[k].x = cfg.spacing
  /\ \A k, m \in 1..Len(bilresa_positions) :
       bilresa_positions[k].y = bilresa_positions[m].y
  /\ PositionsDone =>
       bilresa_positions[1].x = -bilresa_positions[cfg.num].x

C5_Witness ==
  /\ PositionsDone
  /\ cfg.num = 3
  /\ cfg.spacing = 42500
  /\ bilresa_positions[1].x = -42500
  /\ bilresa_positions[3].x = 42500

C7_CradleEnvelope ==
  [][ (pc = "cradles" /\ shelly_housings' # shelly_housings) =>
        LET parts == Prims(shelly_housings' \ shelly_housings)
            env == Bounds(parts)
            shelly_x == bilresa_positions[i + 1].x
        IN /\ { p.name : p \in parts } =
                {"shelf", "shelf_lip", "left_guide", "left_lip",
                 "right_guide", "right_lip"}
           /\ Cardinality(parts) = 6
           /\ env.x1 - env.x0 =
                (SHELLY_WIDTH + cfg.clearance) + (2 * SHELLY_WALL_THICKNESS)
           /\ env.y1 - env.y0 =
                (SHELLY_HEIGHT + cfg.clearance) + SHELLY_SHELF_THICKNESS
           /\ env.x0 + env.x1 = 2 * shelly_x
           /\ \A p \in parts :
                /\ p.x0 < p.x1 /\ p.y0 < p.y1 /\ p.z0 < p.z1
                /\ p.z1 <= 0 ]_vars

C7_Witness ==
  /\ pc = "fuse"
  /\ cfg.clearance < 0
  /\ Cardinality(shelly_housings) = 6 * cfg.num
  /\ cfg.num = 3

(* C8: the two screw holes are centred at -SCREW_SPACING/2 and           *)
(* +SCREW_SPACING/2 on Y = 0, SCREW_SPACING apart; each through hole has *)
(* diameter SCREW_DIAMETER and spans the whole thickness; each           *)
(* countersink goes from SCREW_DIAMETER to SCREW_COUNTERSINK_DIAMETER    *)
(* with the large end at the front face z = thickness.                   *)
C8_ScrewHoles ==
  ScrewsDone =>
    LET through == Named(Holes(faceplate), "screw_hole")
        sinks == Named(Holes(faceplate), "countersink")
    IN /\ { Centre(h) : h \in through } =
            { <<-Half(SCREW_SPACING), 0>>, <<Half(SCREW_SPACING), 0>> }
       /\ Cardinality(through) = 2
       /\ MaxOf({ CentreX(h) : h \in through })
            - MinOf({ CentreX(h) : h \in through }) = SCREW_SPACING
       /\ \A h \in through :
            /\ h.kind = "cylinder"
            /\ 2 * h.r0 = SCREW_DIAMETER /\ 2 * h.r1 = SCREW_DIAMETER
            /\ h.x1 - h.x0 = SCREW_DIAMETER
            /\ h.z0 <= 0 /\ h.z1 >= FACEPLATE_THICKNESS
       /\ { Centre(c) : c \in sinks } = { Centre(h) : h \in through }
       /\ Cardinality(sinks) = 2
       /\ \A c \in sinks :
            /\ 2 * c.r0 = SCREW_DIAMETER
            /\ 2 * c.r1 = SCREW_COUNTERSINK_DIAMETER
            /\ c.z1 = FACEPLATE_THICKNESS
            /\ c.z0 = FACEPLATE_THICKNESS - SCREW_COUNTERSINK_DEPTH
       /\ \A r \in faceplate :
            (Named(r.holes, "screw_hole") # {}) =>
              (r.prim.z0 = 0 /\ r.prim.z1 = FACEPLATE_THICKNESS)

C8_Witness ==
  /\ Finished
  /\ Cardinality(Named(Holes(faceplate), "countersink")) = 2
  /\ Cardinality(Named(Holes(Manufactured), "screw_hole")) = 2

(* C9: with default parameters every cradle lies, in Y, inside the       *)
(* dry-lining box's inner range -34.75 .. +34.75 mm.                     *)
C9_CradlesWithinInnerBox ==
  cfg = DefaultConfig =>
    \A r \in shelly_housings :
      /\ r.prim.y0 >= -Half(INNER_BOX_HEIGHT)
      /\ r.prim.y1 <= Half(INNER_BOX_HEIGHT)

(* C10: with default parameters no cradle part that touches the back     *)
(* face z = 0 covers, in XY, any part of a pocket opening, so a plate    *)
(* can be pushed straight in from behind.                                *)
C10_PocketsOpenFromBack ==
  (cfg = DefaultConfig /\ Registered) =>
    \A r \in CradleParts(Manufactured) :
      (r.prim.z0 <= 0 /\ r.prim.z1 >= 0) =>
        \A h \in Named(Holes(Manufactured), "pocket") :
          ~FootprintMeets(h, r.prim)

====
